---- MODULE Spec2Model ----
(***************************************************************************)
(* Model of the SBS news chatbot skill (Nasser-Lim/shuttlecock_kakao).     *)
(*                                                                         *)
(* The repository holds two variants of the same express service:          *)
(*   "app"  - src/app.js                                                   *)
(*   "part" - src/unnamed/part_001 (src/unnamed/part_000 is the same file  *)
(*            in another text encoding)                                    *)
(* A deployment runs exactly one of them; the variable `variant` says      *)
(* which.                                                                  *)
(*                                                                         *)
(* JavaScript strings are modelled as sequences of one-character strings,  *)
(* so that the regular-expression replacements of formatKeywords and       *)
(* cleanText are computed character by character.                          *)
(***************************************************************************)
EXTENDS Naturals, Integers, Sequences, FiniteSets, TLC

VARIABLES
    variant,          \* which source file is deployed: "app" or "part"
    \* ---- harness that applies the pure functions to drawn inputs
    input,            \* the argument string
    output,           \* the result of the first application
    output2,          \* the result of applying cleanText to output
    step,             \* how many applications were made
    \* ---- the /api/searchNews handler, one entry per request
    pc,               \* where the handler of the request is suspended
    reqBody,          \* req.body of the request
    ret,              \* how each provider call of the request returned
    completionText,   \* response.data.content[0].text of the completion call
    searchQuery,      \* the query string sent to the news search
    searchResponse,   \* response.data.news_sbs of the news search
    keywords,         \* const keywords
    newsData,         \* const newsData
    embCall,          \* the embedding call issued for each article
    embOrder,         \* the article indexes in the order their calls returned
    embeddings,       \* const embeddings
    similarDocuments, \* const similarDocuments
    status,           \* res.status(...), 0 while nothing was sent
    resBody,          \* the body given to res.send(...)
    sent,             \* how many times res.send was called
    calls,            \* how many calls of each kind the request issued
    raised,           \* the stage whose exception reached the handler
    \* ---- the external vector store
    store             \* the rows of table news_embeddings, in insertion order

harnessVars == <<input, output, output2, step>>

handlerVars == <<pc, reqBody, ret, completionText, searchQuery, searchResponse,
                 keywords, newsData, embCall, embOrder, embeddings,
                 similarDocuments, status, resBody, sent, calls, raised,
                 store>>

vars == <<variant, harnessVars, handlerVars>>

Variants == {"app", "part"}

(***************************************************************************)
(* Bounds of the model.                                                    *)
(***************************************************************************)
MaxKeywordLen == 5      \* longest model-output string given to formatKeywords
MaxFrags == 3           \* number of fragments concatenated into a cleanText input

(***************************************************************************)
(* String helpers: the JavaScript built-ins the source calls.              *)
(***************************************************************************)
\* the characters /\s/ matches and String.prototype.trim removes
WhiteSpace == {" ", "\n", "\t", "\r"}

\* the characters /./ does not match (no s flag)
LineTerminators == {"\n", "\r"}

Min(S) == CHOOSE x \in S : \A y \in S : x <= y

Prefix(s, p) == Len(s) >= Len(p) /\ SubSeq(s, 1, Len(p)) = p

Drop(s, n) == SubSeq(s, n + 1, Len(s))

\* String.prototype.trim
RECURSIVE TrimStart(_)
TrimStart(s) ==
    IF s # <<>> /\ Head(s) \in WhiteSpace THEN TrimStart(Tail(s)) ELSE s

RECURSIVE TrimEnd(_)
TrimEnd(s) ==
    IF s # <<>> /\ s[Len(s)] \in WhiteSpace
    THEN TrimEnd(SubSeq(s, 1, Len(s) - 1))
    ELSE s

Trim(s) == TrimEnd(TrimStart(s))

\* keywords.replace(/,/g, '')
RECURSIVE StripCommas(_)
StripCommas(s) ==
    IF s = <<>> THEN <<>>
    ELSE (IF Head(s) = "," THEN <<>> ELSE <<Head(s)>>) \o StripCommas(Tail(s))

\* String.prototype.split(/\s+/): the pieces between maximal runs of white
\* space, the empty pieces at either end included; "" splits into [""].
RECURSIVE SplitFrom(_, _)
SplitFrom(s, cur) ==
    IF s = <<>> THEN <<cur>>
    ELSE IF Head(s) \in WhiteSpace
         THEN <<cur>> \o SplitFrom(TrimStart(s), <<>>)
         ELSE SplitFrom(Tail(s), Append(cur, Head(s)))

SplitWS(s) == SplitFrom(s, <<>>)

\* Array.prototype.slice(0, 2)
Slice2(words) == SubSeq(words, 1, IF Len(words) < 2 THEN Len(words) ELSE 2)

\* Array.prototype.join(sep) on an array of strings
RECURSIVE Join(_, _)
Join(words, sep) ==
    IF words = <<>> THEN <<>>
    ELSE IF Len(words) = 1 THEN words[1]
    ELSE words[1] \o sep \o Join(Tail(words), sep)

NonBlank(word) == Trim(word) # <<>>

(***************************************************************************)
(* formatKeywords                                                          *)
(***************************************************************************)
\* src/app.js: split, drop the blank pieces, keep two, join
formatKeywordsApp(kw) ==
    Join(Slice2(SelectSeq(SplitWS(kw), NonBlank)), <<" ">>)

\* src/unnamed/part_001: strip commas, trim, split, keep two, join
formatKeywordsPart(kw) ==
    Join(Slice2(SplitWS(Trim(StripCommas(kw)))), <<" ">>)

formatKeywords(kw) ==
    IF variant = "app" THEN formatKeywordsApp(kw)
    ELSE formatKeywordsPart(kw)

(***************************************************************************)
(* cleanText                                                               *)
(***************************************************************************)
HS == <<"<", "!", "H", "S", ">">>
HE == <<"<", "!", "H", "E", ">">>
H4Open == <<"<", "h", "4">>
H4Close == <<"<", "/", "h", "4", ">">>

\* the value of a field the provider's record does not carry
Undefined == <<"undefined">>

\* text.replace(/<!HS>|<!HE>/g, ''): one left-to-right pass
RECURSIVE RemoveMarkers(_)
RemoveMarkers(s) ==
    IF s = <<>> THEN <<>>
    ELSE IF Prefix(s, HS) \/ Prefix(s, HE) THEN RemoveMarkers(Drop(s, 5))
    ELSE <<Head(s)>> \o RemoveMarkers(Tail(s))

\* the length of the match of /<h4[^>]*>.*?<\/h4>/ at the start of s, 0 for
\* no match: "<h4", then everything up to the first ">", then the shortest
\* run without a line terminator that is followed by "</h4>"
MatchH4(s) ==
    IF ~Prefix(s, H4Open) THEN 0
    ELSE LET gts == {j \in 4..Len(s) : s[j] = ">"}
         IN  IF gts = {} THEN 0
             ELSE LET j == Min(gts)
                      ends == {m \in (j + 1)..(Len(s) - 4) :
                                  /\ SubSeq(s, m, m + 4) = H4Close
                                  /\ \A q \in (j + 1)..(m - 1) :
                                        s[q] \notin LineTerminators}
                  IN  IF ends = {} THEN 0 ELSE Min(ends) + 4

\* .replace(/<h4[^>]*>.*?<\/h4>/g, ''): one left-to-right pass
RECURSIVE RemoveH4(_)
RemoveH4(s) ==
    IF s = <<>> THEN <<>>
    ELSE IF MatchH4(s) > 0 THEN RemoveH4(Drop(s, MatchH4(s)))
    ELSE <<Head(s)>> \o RemoveH4(Tail(s))

\* .replace(/\n+/g, '\n')
RECURSIVE CollapseNewlines(_)
CollapseNewlines(s) ==
    IF s = <<>> THEN <<>>
    ELSE IF Len(s) >= 2 /\ s[1] = "\n" /\ s[2] = "\n"
         THEN CollapseNewlines(Tail(s))
         ELSE <<Head(s)>> \o CollapseNewlines(Tail(s))

\* text.replace of a missing field is a TypeError
cleanTextThrows(text) == text = Undefined

cleanText(text) == CollapseNewlines(RemoveH4(RemoveMarkers(text)))

(***************************************************************************)
(* Data of the handler.                                                    *)
(***************************************************************************)
\* the requests the service receives, and the one Spec follows through
\* every outcome of every provider call
Reqs == {1, 2}
Followed == {1}

MaxArticles == 2        \* longest news_sbs list the search provider returns
MaxMatches == 2         \* longest list the similarity procedure returns

\* req.body: with userRequest.utterance, with userRequest but no utterance,
\* and without userRequest
Bodies == {"utterance", "noUtterance", "noUserRequest"}

\* texts of the completion model: two keywords with a comma and a third
\* token, one keyword, and white space only
CompletionTexts ==
    { <<"a", ",", " ", "b", " ", "c">>, <<"a">>, <<" ">> }

\* records of the news search provider
RecA == [TITLE |-> HS \o <<"a">> \o HE,
         REDUCE_CONTENTS |-> <<"x", "\n", "\n", "y">>,
         DATE |-> <<"1">>, DOCID |-> <<"N", "1">>]
RecB == [TITLE |-> <<"b">>,
         REDUCE_CONTENTS |-> H4Open \o <<">", "t">> \o H4Close \o <<"z">>,
         DATE |-> <<"2">>, DOCID |-> <<"N", "2">>]
\* a record whose title is only highlight markers
RecUntitled == [TITLE |-> HS \o HE, REDUCE_CONTENTS |-> <<"w">>,
                DATE |-> <<"3">>, DOCID |-> <<"N", "3">>]
\* a record without REDUCE_CONTENTS
RecNoBody == [TITLE |-> <<"c">>, REDUCE_CONTENTS |-> Undefined,
              DATE |-> <<"4">>, DOCID |-> <<"N", "4">>]

RawRecords == {RecA, RecB, RecUntitled, RecNoBody}

SeqsUpTo(S, n) == UNION {[1..k -> S] : k \in 0..n}

\* what axios.get resolves to or fails with: a transport failure, a response
\* without news_sbs, a response with a news_sbs list
SearchOutcomes ==
    { [ok |-> FALSE, hasList |-> FALSE, news_sbs |-> <<>>],
      [ok |-> TRUE, hasList |-> FALSE, news_sbs |-> <<>>] }
    \cup { [ok |-> TRUE, hasList |-> TRUE, news_sbs |-> l] :
             l \in SeqsUpTo(RawRecords, MaxArticles) }

\* embedding vectors
Vectors == {"v1", "v2"}

NoCalls == [completion |-> 0, search |-> 0, embedding |-> 0, insert |-> 0,
            qembed |-> 0, rpc |-> 0]

NoRet == [completion |-> "none", search |-> "none", insert |-> "none",
          qembed |-> "none", rpc |-> "none"]

\* the value of a variable that was not assigned yet, and JavaScript's null
NullDocs == [isNull |-> TRUE, docs |-> <<>>]

NoBody == [nothing |-> "sent"]

(***************************************************************************)
(* The texts and bodies of the Responder.                                  *)
(***************************************************************************)
\* "관련 뉴스 링크:" (the header line), "관련 뉴스를 찾을 수 없습니다." (no
\* results) and "죄송합니다. 뉴스를 검색하는 중 오류가 발생했습니다." (apology)
HeaderLine == "related news links:"
NoResultsText == <<"no related news found.">>
ApologyText == <<"sorry, an error occurred while searching the news.">>

LinkPrefix == "https://news.sbs.co.kr/news/endPage.do?news_id="

\* a text is the sequence of its lines
Envelope(text) ==
    [version |-> "2.0",
     template |-> [outputs |-> << [simpleText |-> [text |-> text]] >>]]

\* "header\n" + similarDocuments.map(doc => doc.link).join('\n')
LinksText(docs) ==
    <<HeaderLine>> \o (IF docs = <<>> THEN << <<>> >>
                       ELSE [i \in 1..Len(docs) |-> docs[i].link])

\* evaluating the reply text throws: similarDocuments.map on null (app.js)
ReplyThrows(similar) == variant = "app" /\ similar.isNull

\* mutant: the "no results" message whatever was found
ReplyTextNoResultsOnly(similar) == NoResultsText

\* similarDocuments && similarDocuments.length > 0 ? ... : ... (part_001);
\* app.js has no such test
ReplyText(similar) ==
    IF variant = "app" THEN LinksText(similar.docs)
    ELSE IF ~similar.isNull /\ Len(similar.docs) > 0
         THEN LinksText(similar.docs)
         ELSE NoResultsText

\* the body of the catch block's res.status(500).send(...)
ErrorBody ==
    IF variant = "app" THEN [error |-> "Internal Server Error"]
    ELSE Envelope(ApologyText)

(***************************************************************************)
(* The stages.  A stage applied to what its provider call returned gives   *)
(* [threw, value]: whether the stage raised to the handler, and what it    *)
(* returned otherwise.                                                     *)
(***************************************************************************)
Returned(v) == [threw |-> FALSE, value |-> v]
Threw == [threw |-> TRUE, value |-> <<>>]

\* part_001 calls iconv.decode, and no require binds iconv: a
\* ReferenceError inside the try block
iconvBound == FALSE

decodeThrows == variant = "part" /\ ~iconvBound

\* the try block of extractKeywords
extractKeywordsTry(o) ==
    IF ~o.ok \/ decodeThrows THEN Threw
    ELSE Returned(formatKeywords(o.text))

\* mutant: extractKeywords without its catch block
extractKeywordsNoCatch(o) == extractKeywordsTry(o)

\* try { ... } catch (error) { console.error(...); return ""; }
extractKeywords(o) ==
    IF extractKeywordsTry(o).threw THEN Returned(<<>>)
    ELSE extractKeywordsTry(o)

toArticle(rec) ==
    [title |-> cleanText(rec.TITLE),
     article |-> cleanText(rec.REDUCE_CONTENTS),
     date |-> cleanText(rec.DATE),
     link |-> <<LinkPrefix>> \o rec.DOCID]

\* mutant: the filter on the title left out
HasTitleAlways(a) == TRUE

\* filter(article => article.title)
HasTitle(a) == a.title # <<>>

\* mapping a record calls cleanText on TITLE, REDUCE_CONTENTS and DATE
mapThrows(list) ==
    \E i \in 1..Len(list) :
        \/ cleanTextThrows(list[i].TITLE)
        \/ cleanTextThrows(list[i].REDUCE_CONTENTS)
        \/ cleanTextThrows(list[i].DATE)

\* the try block of fetchNewsData
fetchNewsDataTry(o) ==
    IF ~o.ok THEN Threw
    ELSE LET articles == IF o.hasList THEN o.news_sbs ELSE <<>>
         IN  IF mapThrows(articles) THEN Threw
             ELSE Returned(SelectSeq([i \in 1..Len(articles) |->
                                        toArticle(articles[i])], HasTitle))

\* mutant: fetchNewsData without its catch block
fetchNewsDataNoCatch(o) == fetchNewsDataTry(o)

\* try { ... } catch (error) { console.error(...); return []; }
fetchNewsData(o) ==
    IF fetchNewsDataTry(o).threw THEN Returned(<<>>)
    ELSE fetchNewsDataTry(o)

Pending == [st |-> "pending", vec |-> "none"]

\* mutant: Promise.allSettled in place of Promise.all
PromiseAllSettled(cs) ==
    IF \A i \in 1..Len(cs) : cs[i].st # "pending" THEN "fulfilled"
    ELSE "pending"

\* mutant: fulfilled as soon as one call succeeded (Promise.any)
PromiseAny(cs) ==
    IF \E i \in 1..Len(cs) : cs[i].st = "ok" THEN "fulfilled"
    ELSE IF \A i \in 1..Len(cs) : cs[i].st = "failed" THEN "rejected"
    ELSE "pending"

\* Promise.all over the per-article calls: rejected as soon as one call
\* failed, fulfilled with the results in input order once all succeeded
PromiseAll(cs) ==
    IF \E i \in 1..Len(cs) : cs[i].st = "failed" THEN "rejected"
    ELSE IF \A i \in 1..Len(cs) : cs[i].st = "ok" THEN "fulfilled"
    ELSE "pending"

\* { ...doc, embedding: response.data[0].embedding }
withEmbedding(doc, vec) ==
    [title |-> doc.title, article |-> doc.article, date |-> doc.date,
     link |-> doc.link, embedding |-> vec]

IsOk(c) == c.st = "ok"

\* mutant: each call guarded by its own catch, the failed ones dropped
createEmbeddingsPartial(documents, cs) ==
    [state |-> PromiseAllSettled(cs),
     value |-> IF PromiseAllSettled(cs) = "fulfilled"
               THEN LET okAt == SelectSeq([i \in 1..Len(cs) |-> i],
                                          LAMBDA i : IsOk(cs[i]))
                    IN  [k \in 1..Len(okAt) |->
                           withEmbedding(documents[okAt[k]], cs[okAt[k]].vec)]
               ELSE <<>>]

\* mutant: the vectors attached in reverse order
createEmbeddingsReversed(documents, cs) ==
    [state |-> PromiseAll(cs),
     value |-> IF PromiseAll(cs) = "fulfilled"
               THEN [i \in 1..Len(documents) |->
                        withEmbedding(documents[i], cs[Len(cs) + 1 - i].vec)]
               ELSE <<>>]

\* createEmbeddings over the calls' states cs: [state, value]
createEmbeddings(documents, cs) ==
    [state |-> PromiseAll(cs),
     value |-> IF PromiseAll(cs) = "fulfilled"
               THEN [i \in 1..Len(documents) |->
                        withEmbedding(documents[i], cs[i].vec)]
               ELSE <<>>]

\* storeEmbeddings raises when the insert promise rejects and, in part_001,
\* when the insert returns an error
storeEmbeddingsThrows(o) ==
    \/ o = "reject"
    \/ o = "error" /\ variant = "part"

\* mutant: an upsert that skips the rows whose link is already stored
insertRowsSkipStored(table, rows) ==
    table \o SelectSeq(rows, LAMBDA d :
                 \A i \in 1..Len(table) : table[i].link # d.link)

\* supabase.from('news_embeddings').insert(embeddings): a plain insert, all
\* the rows of the batch are added after the rows already in the table
insertRows(table, rows) == table \o rows

\* default parameter k = 5 of findSimilarDocuments
MatchCount == 5

\* what supabase.rpc('match_documents') can give back: data null with an
\* error, a rejected promise, or the links of up to match_count stored rows
RpcOutcomes ==
    LET n == Min({MatchCount, MaxMatches, Len(store)})
        picks == {p \in SeqsUpTo(1..Len(store), n) :
                     \A i, j \in 1..Len(p) : i # j => p[i] # p[j]}
    IN  { [kind |-> "error", data |-> <<>>], [kind |-> "reject", data |-> <<>>] }
        \cup { [kind |-> "ok",
                data |-> [i \in 1..Len(p) |-> [link |-> store[p[i]].link]]] :
               p \in picks }

(***************************************************************************)
(* Initial states.                                                         *)
(***************************************************************************)
HarnessIdle ==
    /\ input = <<>>
    /\ output = <<>>
    /\ output2 = <<>>
    /\ step = 0

HandlerIdle ==
    /\ pc = [r \in Reqs |-> "idle"]
    /\ reqBody = [r \in Reqs |-> "none"]
    /\ ret = [r \in Reqs |-> NoRet]
    /\ completionText = [r \in Reqs |-> <<>>]
    /\ searchQuery = [r \in Reqs |-> <<>>]
    /\ searchResponse = [r \in Reqs |-> <<>>]
    /\ keywords = [r \in Reqs |-> <<>>]
    /\ newsData = [r \in Reqs |-> <<>>]
    /\ embCall = [r \in Reqs |-> <<>>]
    /\ embOrder = [r \in Reqs |-> <<>>]
    /\ embeddings = [r \in Reqs |-> <<>>]
    /\ similarDocuments = [r \in Reqs |-> NullDocs]
    /\ status = [r \in Reqs |-> 0]
    /\ resBody = [r \in Reqs |-> NoBody]
    /\ sent = [r \in Reqs |-> 0]
    /\ calls = [r \in Reqs |-> NoCalls]
    /\ raised = [r \in Reqs |-> "none"]

\* what earlier requests can have left in the store: nothing, or a row
PriorStores ==
    { <<>>, << withEmbedding(toArticle(RecB), "v1") >> }

Init ==
    /\ variant \in Variants
    /\ HarnessIdle
    /\ HandlerIdle
    /\ store \in PriorStores

(***************************************************************************)
(* The handler of POST /api/searchNews.  It is an async function: it runs  *)
(* from one await to the next without interruption, so there is one action *)
(* per provider call that returns, covering the code up to the next call.  *)
(***************************************************************************)
\* mutant: a catch block that only logs the error
Reply500LogOnly(r, stage) ==
    /\ raised' = [raised EXCEPT ![r] = stage]
    /\ pc' = [pc EXCEPT ![r] = "done"]
    /\ UNCHANGED <<status, resBody, sent>>

\* catch (error) { ...; res.status(500).send(...) }, reached from `stage`
Reply500(r, stage) ==
    /\ status' = [status EXCEPT ![r] = 500]
    /\ resBody' = [resBody EXCEPT ![r] = ErrorBody]
    /\ sent' = [sent EXCEPT ![r] = @ + 1]
    /\ raised' = [raised EXCEPT ![r] = stage]
    /\ pc' = [pc EXCEPT ![r] = "done"]

NoReply == UNCHANGED <<status, resBody, sent, raised>>

\* mutant: every call issued a second time
IssueWithRetry(r, kind, n) == calls' = [calls EXCEPT ![r][kind] = @ + 2 * n]

Issue(r, kind, n) == calls' = [calls EXCEPT ![r][kind] = @ + n]

\* mutant: the utterance read with optional chaining
readUtteranceOptional(b) == FALSE

\* const userUtterance = req.body.userRequest.utterance: a TypeError when
\* userRequest is missing, undefined when only utterance is missing
readUtteranceThrows(b) == b = "noUserRequest"

\* the request arrives: the utterance is read before the try block, then
\* extractKeywords posts the completion call
Receive(r, b) ==
    /\ pc[r] = "idle"
    /\ reqBody' = [reqBody EXCEPT ![r] = b]
    /\ IF readUtteranceThrows(b)
       THEN \* TypeError outside the try block: the handler's promise rejects
            /\ pc' = [pc EXCEPT ![r] = "rejected"]
            /\ raised' = [raised EXCEPT ![r] = "handler"]
            /\ UNCHANGED calls
       ELSE /\ pc' = [pc EXCEPT ![r] = "extract"]
            /\ Issue(r, "completion", 1)
            /\ UNCHANGED raised
    /\ UNCHANGED <<variant, harnessVars, ret, completionText, searchQuery,
                   searchResponse, keywords, newsData, embCall, embOrder,
                   embeddings, similarDocuments, status, resBody, sent, store>>

\* the completion call returns o = [ok, text]; extractKeywords returns and
\* fetchNewsData sends the search request
CompletionReturn(r, o) ==
    /\ pc[r] = "extract"
    /\ ret' = [ret EXCEPT ![r].completion = IF o.ok THEN "ok" ELSE "fail"]
    /\ completionText' = [completionText EXCEPT ![r] = o.text]
    /\ LET k == extractKeywords(o)
       IN  IF k.threw
           THEN /\ Reply500(r, "extractKeywords")
                /\ UNCHANGED <<keywords, searchQuery, calls>>
           ELSE /\ keywords' = [keywords EXCEPT ![r] = k.value]
                /\ searchQuery' = [searchQuery EXCEPT ![r] = k.value]
                /\ Issue(r, "search", 1)
                /\ pc' = [pc EXCEPT ![r] = "fetch"]
                /\ NoReply
    /\ UNCHANGED <<variant, harnessVars, reqBody, searchResponse, newsData,
                   embCall, embOrder, embeddings, similarDocuments, store>>

\* the search request returns o; fetchNewsData returns and createEmbeddings
\* issues one embedding call per article.  With no article Promise.all is
\* fulfilled at once and storeEmbeddings issues the insert.
SearchReturn(r, o) ==
    /\ pc[r] = "fetch"
    /\ ret' = [ret EXCEPT ![r].search = IF o.ok THEN "ok" ELSE "fail"]
    /\ searchResponse' = [searchResponse EXCEPT ![r] = o.news_sbs]
    /\ LET f == fetchNewsData(o)
       IN  IF f.threw
           THEN /\ Reply500(r, "fetchNewsData")
                /\ UNCHANGED <<newsData, embCall, calls>>
           ELSE /\ newsData' = [newsData EXCEPT ![r] = f.value]
                /\ embCall' = [embCall EXCEPT ![r] =
                                  [i \in 1..Len(f.value) |-> Pending]]
                /\ calls' = [calls EXCEPT
                               ![r].embedding = @ + Len(f.value),
                               ![r].insert = IF f.value = <<>> THEN @ + 1 ELSE @]
                /\ pc' = [pc EXCEPT ![r] =
                             IF f.value = <<>> THEN "store" ELSE "embed"]
                /\ NoReply
    /\ UNCHANGED <<variant, harnessVars, reqBody, completionText, searchQuery,
                   keywords, embOrder, embeddings, similarDocuments, store>>

\* the embedding call of article i returns o = [ok, vec].  While the handler
\* awaits Promise.all: a failure rejects it and the catch block replies; the
\* last success fulfils it and storeEmbeddings issues the insert.  A call
\* that returns after the rejection changes nothing.
EmbedReturn(r, i, o) ==
    /\ pc[r] \in {"embed", "done"}
    /\ i \in 1..Len(embCall[r])
    /\ embCall[r][i].st = "pending"
    /\ LET cs == [embCall[r] EXCEPT ![i] =
                    IF o.ok THEN [st |-> "ok", vec |-> o.vec]
                    ELSE [st |-> "failed", vec |-> "none"]]
           e == createEmbeddings(newsData[r], cs)
       IN  /\ embCall' = [embCall EXCEPT ![r] = cs]
           /\ embOrder' = [embOrder EXCEPT ![r] = Append(@, i)]
           /\ IF pc[r] = "embed" /\ e.state = "rejected"
              THEN /\ Reply500(r, "createEmbeddings")
                   /\ UNCHANGED <<embeddings, calls>>
              ELSE IF pc[r] = "embed" /\ e.state = "fulfilled"
              THEN /\ embeddings' = [embeddings EXCEPT ![r] = e.value]
                   /\ Issue(r, "insert", 1)
                   /\ pc' = [pc EXCEPT ![r] = "store"]
                   /\ NoReply
              ELSE /\ UNCHANGED <<embeddings, calls, pc>>
                   /\ NoReply
    /\ UNCHANGED <<variant, harnessVars, reqBody, ret, completionText,
                   searchQuery, searchResponse, keywords, newsData,
                   similarDocuments, store>>

\* the bulk insert returns o: "ok", "error" ({error} in the result) or
\* "reject"; storeEmbeddings returns or raises, then findSimilarDocuments
\* issues the embedding call of the utterance
InsertReturn(r, o) ==
    /\ pc[r] = "store"
    /\ ret' = [ret EXCEPT ![r].insert = o]
    /\ store' = IF o = "ok" THEN insertRows(store, embeddings[r]) ELSE store
    /\ IF storeEmbeddingsThrows(o)
       THEN /\ Reply500(r, "storeEmbeddings")
            /\ UNCHANGED calls
       ELSE /\ Issue(r, "qembed", 1)
            /\ pc' = [pc EXCEPT ![r] = "qembed"]
            /\ NoReply
    /\ UNCHANGED <<variant, harnessVars, reqBody, completionText, searchQuery,
                   searchResponse, keywords, newsData, embCall, embOrder,
                   embeddings, similarDocuments>>

\* the embedding call of the utterance returns; it is awaited outside any
\* try block of findSimilarDocuments.  On success the similarity procedure
\* is called.
QueryEmbedReturn(r, o) ==
    /\ pc[r] = "qembed"
    /\ ret' = [ret EXCEPT ![r].qembed = IF o.ok THEN "ok" ELSE "fail"]
    /\ IF ~o.ok
       THEN /\ Reply500(r, "findSimilarDocuments")
            /\ UNCHANGED calls
       ELSE /\ Issue(r, "rpc", 1)
            /\ pc' = [pc EXCEPT ![r] = "rpc"]
            /\ NoReply
    /\ UNCHANGED <<variant, harnessVars, reqBody, completionText, searchQuery,
                   searchResponse, keywords, newsData, embCall, embOrder,
                   embeddings, similarDocuments, store>>

\* the similarity procedure returns o; findSimilarDocuments returns data and
\* the handler builds and sends the reply
RpcReturn(r, o) ==
    /\ pc[r] = "rpc"
    /\ ret' = [ret EXCEPT ![r].rpc = o.kind]
    /\ LET similar == IF o.kind = "ok" THEN [isNull |-> FALSE, docs |-> o.data]
                      ELSE NullDocs
       IN  IF o.kind = "reject"
           THEN /\ Reply500(r, "findSimilarDocuments")
                /\ UNCHANGED similarDocuments
           ELSE /\ similarDocuments' = [similarDocuments EXCEPT ![r] = similar]
                /\ IF ReplyThrows(similar)
                   THEN Reply500(r, "responder")
                   ELSE /\ status' = [status EXCEPT ![r] = 200]
                        /\ resBody' = [resBody EXCEPT ![r] =
                                          Envelope(ReplyText(similar))]
                        /\ sent' = [sent EXCEPT ![r] = @ + 1]
                        /\ pc' = [pc EXCEPT ![r] = "done"]
                        /\ UNCHANGED raised
    /\ UNCHANGED <<variant, harnessVars, reqBody, completionText, searchQuery,
                   searchResponse, keywords, newsData, embCall, embOrder,
                   embeddings, calls, store>>

CompletionOutcomes ==
    { [ok |-> FALSE, text |-> <<>>] }
    \cup { [ok |-> TRUE, text |-> t] : t \in CompletionTexts }

EmbedOutcomes ==
    { [ok |-> FALSE, vec |-> "none"] }
    \cup { [ok |-> TRUE, vec |-> v] : v \in Vectors }

InsertOutcomes == {"ok", "error", "reject"}

Next ==
    \/ \E r \in Followed, b \in Bodies : Receive(r, b)
    \/ \E r \in Followed, o \in CompletionOutcomes : CompletionReturn(r, o)
    \/ \E r \in Followed, o \in SearchOutcomes : SearchReturn(r, o)
    \/ \E r \in Followed, i \in 1..MaxArticles, o \in EmbedOutcomes :
          EmbedReturn(r, i, o)
    \/ \E r \in Followed, o \in InsertOutcomes : InsertReturn(r, o)
    \/ \E r \in Followed, o \in EmbedOutcomes : QueryEmbedReturn(r, o)
    \/ \E r \in Followed, o \in RpcOutcomes : RpcReturn(r, o)

Spec == Init /\ [][Next]_vars

\* a provider call of a followed request returns
ProviderReturns ==
    \/ \E r \in Followed, o \in CompletionOutcomes : CompletionReturn(r, o)
    \/ \E r \in Followed, o \in SearchOutcomes : SearchReturn(r, o)
    \/ \E r \in Followed, i \in 1..MaxArticles, o \in EmbedOutcomes :
          EmbedReturn(r, i, o)
    \/ \E r \in Followed, o \in InsertOutcomes : InsertReturn(r, o)
    \/ \E r \in Followed, o \in EmbedOutcomes : QueryEmbedReturn(r, o)
    \/ \E r \in Followed, o \in RpcOutcomes : RpcReturn(r, o)

\* the handler under the assumption that every provider call that was made
\* eventually returns (with a result or with an error)
SpecLive == Init /\ [][Next]_vars /\ WF_vars(ProviderReturns)

(***************************************************************************)
(* Two requests served concurrently: the same handler steps, interleaved at *)
(* the awaits, on an initially empty table.  The outcomes are the ones that *)
(* decide what reaches the table.                                           *)
(***************************************************************************)
InitConc ==
    /\ variant \in Variants
    /\ HarnessIdle
    /\ HandlerIdle
    /\ store = <<>>

ConcCompletions == { [ok |-> TRUE, text |-> <<"a">>] }

\* both requests can be given the same articles
ConcSearches ==
    { [ok |-> FALSE, hasList |-> FALSE, news_sbs |-> <<>>],
      [ok |-> TRUE, hasList |-> TRUE, news_sbs |-> <<RecA>>],
      [ok |-> TRUE, hasList |-> TRUE, news_sbs |-> <<RecA, RecB>>] }

ConcEmbeds == { [ok |-> FALSE, vec |-> "none"], [ok |-> TRUE, vec |-> "v1"] }

NextConc ==
    \/ \E r \in Reqs : Receive(r, "utterance")
    \/ \E r \in Reqs, o \in ConcCompletions : CompletionReturn(r, o)
    \/ \E r \in Reqs, o \in ConcSearches : SearchReturn(r, o)
    \/ \E r \in Reqs, i \in 1..MaxArticles, o \in ConcEmbeds :
          EmbedReturn(r, i, o)
    \/ \E r \in Reqs, o \in InsertOutcomes : InsertReturn(r, o)
    \/ \E r \in Reqs, o \in ConcEmbeds : QueryEmbedReturn(r, o)
    \/ \E r \in Reqs, o \in RpcOutcomes : RpcReturn(r, o)

SpecConc == InitConc /\ [][NextConc]_vars

(***************************************************************************)
(* The pure functions applied to drawn inputs.                             *)
(***************************************************************************)
KeywordChars == {"a", "b", ",", " ", "\n"}

KeywordInputs == SeqsUpTo(KeywordChars, MaxKeywordLen)

\* pieces of markers, of h4 blocks and of text
CleanFrags ==
    { HS, HE, <<"<", "!", "H">>, <<"S", ">">>, <<"\n">>, <<"x">>,
      H4Open, <<">">>, H4Close, <<"<", "h">>, <<"4">> }

RECURSIVE Concats(_)
Concats(n) ==
    IF n = 0 THEN { <<>> }
    ELSE Concats(n - 1) \cup {p \o f : p \in Concats(n - 1), f \in CleanFrags}

CleanInputs == Concats(MaxFrags)

InitFK ==
    /\ variant \in Variants
    /\ input \in KeywordInputs
    /\ output = <<>>
    /\ output2 = <<>>
    /\ step = 0
    /\ HandlerIdle
    /\ store = <<>>

\* output = formatKeywords(input)
CallFormatKeywords ==
    /\ step = 0
    /\ output' = formatKeywords(input)
    /\ step' = 1
    /\ UNCHANGED <<variant, input, output2, handlerVars>>

SpecFK == InitFK /\ [][CallFormatKeywords]_vars

InitCT ==
    /\ variant \in Variants
    /\ input \in CleanInputs
    /\ output = <<>>
    /\ output2 = <<>>
    /\ step = 0
    /\ HandlerIdle
    /\ store = <<>>

\* output = cleanText(input)
CallCleanText ==
    /\ step = 0
    /\ output' = cleanText(input)
    /\ step' = 1
    /\ UNCHANGED <<variant, input, output2, handlerVars>>

\* output2 = cleanText(output)
CallCleanTextAgain ==
    /\ step = 1
    /\ output2' = cleanText(output)
    /\ step' = 2
    /\ UNCHANGED <<variant, input, output, handlerVars>>

NextCT == CallCleanText \/ CallCleanTextAgain

SpecCT == InitCT /\ [][NextCT]_vars

(***************************************************************************)
(* Properties.                                                             *)
(***************************************************************************)
Failed(r) == \E i \in 1..Len(embCall[r]) : embCall[r][i].st = "failed"

AllOk(r) == \A i \in 1..Len(embCall[r]) : embCall[r][i].st = "ok"

\* C1: in every variant, a request whose bulk insert reported a write
\* failure ends with storeEmbeddings having raised to the handler, and never
\* with an HTTP 200 reply.
C1_InsertFailureRaises ==
    \A r \in Reqs :
        (ret[r].insert = "error" /\ pc[r] = "done") =>
            /\ raised[r] = "storeEmbeddings"
            /\ status[r] # 200

\* C2: when one embedding call of a request has failed, the request is
\* answered with HTTP 500 and neither the bulk insert nor the similarity
\* search (its embedding call and its procedure call) was ever issued for
\* it, also after the sibling calls have returned.
C2_EmbedFailureAborts ==
    \A r \in Reqs :
        Failed(r) =>
            /\ status[r] = 500
            /\ calls[r].insert = 0
            /\ calls[r].qembed = 0
            /\ calls[r].rpc = 0
            /\ ret[r].insert = "none"

\* C2 witness: the first call failed, the request was answered 500, and the
\* sibling call succeeded afterwards.
C2_Witness ==
    \E r \in Reqs :
        /\ Len(embCall[r]) = 2
        /\ embOrder[r] = <<1, 2>>
        /\ embCall[r][1].st = "failed"
        /\ embCall[r][2].st = "ok"
        /\ status[r] = 500

IsEnvelope(b) ==
    /\ DOMAIN b = {"version", "template"}
    /\ b.version = "2.0"
    /\ DOMAIN b.template = {"outputs"}
    /\ Len(b.template.outputs) = 1
    /\ DOMAIN b.template.outputs[1] = {"simpleText"}
    /\ DOMAIN b.template.outputs[1].simpleText = {"text"}

\* C3: every body the handler sends, with status 200 or 500, has the shape
\* {version: "2.0", template: {outputs: [{simpleText: {text}}]}}, and with
\* status 500 the text is the apology message.
C3_EveryBodyIsEnvelope ==
    \A r \in Reqs :
        sent[r] > 0 =>
            /\ IsEnvelope(resBody[r])
            /\ status[r] = 500 =>
                  resBody[r].template.outputs[1].simpleText.text = ApologyText

\* C4: createEmbeddings is all-or-nothing.  Once one of the N calls failed,
\* no list was returned (the handler's embeddings stays unassigned and the
\* exception reached the handler); the handler got past createEmbeddings
\* only with all N calls succeeded.
C4_AllOrNothing ==
    \A r \in Reqs :
        /\ Failed(r) =>
              /\ embeddings[r] = <<>>
              /\ raised[r] = "createEmbeddings"
        /\ calls[r].insert > 0 => AllOk(r)

\* C4 witness: of two calls one succeeded first and then the other failed,
\* and no list was returned.
C4_Witness ==
    \E r \in Reqs :
        /\ Len(embCall[r]) = 2
        /\ embOrder[r] = <<2, 1>>
        /\ embCall[r][2].st = "ok"
        /\ embCall[r][1].st = "failed"
        /\ embeddings[r] = <<>>
        /\ raised[r] = "createEmbeddings"

\* C5: when createEmbeddings has returned, its list is as long as its input
\* and element i carries the title, article, date and link of input article i
\* and the vector that the call issued for article i returned, in whatever
\* order the calls returned.
C5_OrderAndFieldsPreserved ==
    \A r \in Reqs :
        calls[r].insert > 0 =>
            /\ Len(embeddings[r]) = Len(newsData[r])
            /\ \A i \in 1..Len(newsData[r]) :
                  /\ embeddings[r][i].title = newsData[r][i].title
                  /\ embeddings[r][i].article = newsData[r][i].article
                  /\ embeddings[r][i].date = newsData[r][i].date
                  /\ embeddings[r][i].link = newsData[r][i].link
                  /\ embeddings[r][i].embedding = embCall[r][i].vec
                  /\ embCall[r][i].vec \in Vectors

\* C5 witness: two different articles whose calls returned different vectors,
\* the second call before the first, and the list was returned.
C5_Witness ==
    \E r \in Reqs :
        /\ Len(newsData[r]) = 2
        /\ newsData[r][1] # newsData[r][2]
        /\ embOrder[r] = <<2, 1>>
        /\ embCall[r][1].vec # embCall[r][2].vec
        /\ Len(embeddings[r]) = 2
        /\ calls[r].insert = 1

\* C6: extractKeywords never raises to the handler; when the completion call
\* failed it returned the empty string and the handler went on to send the
\* news search with the empty query.
C6_ExtractorNeverRaises ==
    \A r \in Reqs :
        /\ raised[r] # "extractKeywords"
        /\ ret[r].completion = "fail" =>
              /\ keywords[r] = <<>>
              /\ searchQuery[r] = <<>>
              /\ calls[r].search = 1

\* C6 witness: the completion call failed and the search request with the
\* empty query is in flight.
C6_Witness ==
    \E r \in Reqs :
        /\ ret[r].completion = "fail"
        /\ pc[r] = "fetch"
        /\ searchQuery[r] = <<>>
        /\ status[r] = 0

HasToken(t) == \E i \in 1..Len(t) : t[i] \notin WhiteSpace

\* C7: when the completion call succeeded with text t, extractKeywords
\* returns the post-processed form of t, which is not empty when t contains
\* a token.
C7_KeywordsFromText ==
    \A r \in Reqs :
        ret[r].completion = "ok" =>
            /\ keywords[r] = formatKeywords(completionText[r])
            /\ HasToken(completionText[r]) => keywords[r] # <<>>

Tokens(s) == SelectSeq(SplitWS(s), LAMBDA w : w # <<>>)

\* C8: formatKeywords returns a string without comma and without leading or
\* trailing white space, made of the first at most two comma-stripped
\* white-space-separated tokens of the input joined by exactly one space.
C8_FormatKeywordsContract ==
    step = 1 =>
        /\ \A i \in 1..Len(output) : output[i] # ","
        /\ output # <<>> =>
              /\ output[1] \notin WhiteSpace
              /\ output[Len(output)] \notin WhiteSpace
        /\ Len(Tokens(output)) <= 2
        /\ output = Join(Slice2(Tokens(StripCommas(input))), <<" ">>)

\* C9: cleanText is idempotent: cleanText(cleanText(s)) = cleanText(s).
C9_CleanTextIdempotent ==
    step = 2 => output2 = output

\* C10: fetchNewsData never raises to the handler; when the search request
\* failed at the transport level, or a returned record lacks a text field,
\* it returned the empty sequence and the handler went on with it.
C10_FetcherNeverRaises ==
    \A r \in Reqs :
        /\ raised[r] # "fetchNewsData"
        /\ (ret[r].search = "fail" \/ mapThrows(searchResponse[r])) =>
              /\ newsData[r] = <<>>
              /\ embCall[r] = <<>>
              /\ calls[r].embedding = 0
              /\ calls[r].insert = 1

\* C10 witness: the search request failed at the transport level and the
\* handler went on to the Store stage with the empty sequence.
C10_Witness ==
    \E r \in Reqs :
        /\ ret[r].search = "fail"
        /\ newsData[r] = <<>>
        /\ pc[r] = "store"
        /\ status[r] = 0

(***************************************************************************)
(* Properties of the fetcher, the responder and the whole handler.         *)
(***************************************************************************)
\* the indexes of the records whose cleaned title is not empty
TitledIndexes(list) ==
    SelectSeq([i \in 1..Len(list) |-> i],
              LAMBDA i : cleanText(list[i].TITLE) # <<>>)

\* newsData holds exactly the titled records of list, in its order, each
\* with its cleaned title and with the link template followed by its DOCID
IsTitledRecordsOf(news, list) ==
    /\ Len(news) = Len(TitledIndexes(list))
    /\ \A k \in 1..Len(news) :
          /\ news[k].title = cleanText(list[TitledIndexes(list)[k]].TITLE)
          /\ news[k].title # <<>>
          /\ news[k].link = <<LinkPrefix>> \o list[TitledIndexes(list)[k]].DOCID

\* C11 (as stated): on a successful search response fetchNewsData returns
\* exactly the records whose cleaned title is not empty, in the provider's
\* order, each with link = URL template + DOCID.
C11_TitledRecordsKept ==
    \A r \in Reqs :
        ret[r].search = "ok" =>
            IsTitledRecordsOf(newsData[r], searchResponse[r])

\* C11 (amended): on a successful search response in which every record
\* carries TITLE, REDUCE_CONTENTS and DATE, fetchNewsData returns exactly the
\* records whose cleaned title is not empty, in the provider's order, each
\* with link = URL template + DOCID; when a record lacks one of these fields
\* it returns the empty sequence.
C11_TitledRecordsKeptWhenComplete ==
    \A r \in Reqs :
        ret[r].search = "ok" =>
            IF mapThrows(searchResponse[r]) THEN newsData[r] = <<>>
            ELSE IsTitledRecordsOf(newsData[r], searchResponse[r])

\* C11 witness: the provider returned an untitled record and then a titled
\* one, and only the titled one was returned.
C11_Witness ==
    \E r \in Reqs :
        /\ ret[r].search = "ok"
        /\ searchResponse[r] = <<RecUntitled, RecA>>
        /\ Len(newsData[r]) = 1
        /\ newsData[r][1].title = <<"a">>
        /\ newsData[r][1].link = <<LinkPrefix, "N", "1">>

\* the text of the reply body of request r
ReplyTextOf(r) == resBody[r].template.outputs[1].simpleText.text

\* the header line followed by the link of every document, in order
HeaderAndLinks(docs) ==
    <<HeaderLine>> \o [i \in 1..Len(docs) |-> docs[i].link]

\* C12 (as stated): a request whose news search failed at the transport
\* level ends, when the calls of the remaining stages succeed, with HTTP 200
\* carrying the "no results" message, whatever the store holds.
C12_SearchFailureRepliesNoResults ==
    \A r \in Reqs :
        (/\ ret[r].search = "fail"
         /\ ret[r].insert = "ok"
         /\ ret[r].qembed = "ok"
         /\ ret[r].rpc = "ok") =>
            /\ status[r] = 200
            /\ ReplyTextOf(r) = NoResultsText

\* C12 (amended): a request whose news search failed at the transport level
\* is not failed by that: fetchNewsData returns the empty list and the
\* handler goes on with the empty bulk insert.  It ends with HTTP 500 only
\* when a later stage raised, and otherwise with HTTP 200, where the text is
\* the "no results" message only if the similarity procedure returned no
\* row: rows that earlier requests left in the store are listed by link.
C12_SearchFailureContinues ==
    \A r \in Reqs :
        ret[r].search = "fail" =>
            /\ raised[r] \notin {"fetchNewsData", "createEmbeddings"}
            /\ newsData[r] = <<>>
            /\ calls[r].embedding = 0
            /\ calls[r].insert = 1
            /\ status[r] = 500 =>
                  raised[r] \in {"storeEmbeddings", "findSimilarDocuments",
                                 "responder"}
            /\ status[r] = 200 =>
                  /\ ret[r].rpc \in {"ok", "error"}
                  /\ similarDocuments[r].docs # <<>> =>
                        ReplyTextOf(r) = HeaderAndLinks(similarDocuments[r].docs)
                  /\ ReplyTextOf(r) = NoResultsText =>
                        similarDocuments[r].docs = <<>>

\* C12 witness: the search failed, and the reply is HTTP 200 listing the link
\* of a row an earlier request left in the store.
C12_Witness ==
    \E r \in Reqs :
        /\ ret[r].search = "fail"
        /\ status[r] = 200
        /\ Len(similarDocuments[r].docs) = 1
        /\ ReplyTextOf(r) = <<HeaderLine, <<LinkPrefix, "N", "2">> >>


\* C13: a provider error in findSimilarDocuments (the embedding call of the
\* utterance failing, the similarity procedure reporting an error or failing)
\* is never raised to the handler, and the request that met it still reaches
\* the Responder.
C13_SimilarityNeverRaises ==
    \A r \in Reqs :
        (ret[r].qembed = "fail" \/ ret[r].rpc \in {"error", "reject"}) =>
            /\ raised[r] # "findSimilarDocuments"
            /\ pc[r] = "done" => (status[r] = 200 \/ raised[r] = "responder")


\* C14: in every variant, once the similarity search has returned, the reply
\* is HTTP 200 and its text is the "no results" message when the result set
\* is empty or absent, and otherwise the header line followed by the links of
\* the results in the provider's order.
C14_ReplyTextFromResults ==
    \A r \in Reqs :
        (ret[r].rpc \in {"ok", "error"} /\ pc[r] = "done") =>
            /\ status[r] = 200
            /\ ReplyTextOf(r) =
                  IF similarDocuments[r].isNull \/ similarDocuments[r].docs = <<>>
                  THEN NoResultsText
                  ELSE HeaderAndLinks(similarDocuments[r].docs)


\* C15: the stages of a request run in the order Extractor, Fetcher,
\* Embedder, Store, Similarity, Responder: the search is issued only after
\* the completion call returned, the embedding calls only after the search
\* returned, the insert only after every embedding call of the request has
\* completed, the embedding of the utterance only after the insert returned,
\* the similarity procedure only after that embedding returned, and the
\* Responder builds the reply only after the similarity search returned.
C15_StagesInOrder ==
    \A r \in Reqs :
        /\ calls[r].search > 0 => ret[r].completion # "none"
        /\ calls[r].embedding > 0 => ret[r].search # "none"
        /\ calls[r].insert > 0 =>
              /\ ret[r].search # "none"
              /\ \A i \in 1..Len(embCall[r]) : embCall[r][i].st = "ok"
        /\ calls[r].qembed > 0 => ret[r].insert # "none"
        /\ calls[r].rpc > 0 => ret[r].qembed = "ok"
        /\ (status[r] = 200 \/ raised[r] = "responder") =>
              ret[r].rpc \in {"ok", "error"}

\* C15 witness: a request with two articles went through every stage and was
\* answered by the Responder.
C15_Witness ==
    \E r \in Reqs :
        /\ Len(newsData[r]) = 2
        /\ calls[r] = [completion |-> 1, search |-> 1, embedding |-> 2,
                       insert |-> 1, qembed |-> 1, rpc |-> 1]
        /\ status[r] = 200


\* the rows of request r are its fetched articles, each with its vector
IsWholeBatch(r) ==
    /\ Len(embeddings[r]) = Len(newsData[r])
    /\ \A i \in 1..Len(newsData[r]) :
          embeddings[r][i] = withEmbedding(newsData[r][i], embCall[r][i].vec)

\* C16: whatever the interleaving of two requests, the table only grows at
\* its end: a step in which the insert of a request succeeds appends the
\* whole batch of that request (all its embedded articles, also when the
\* same articles are stored already) and leaves the earlier rows as they
\* were; every other step leaves the table unchanged; and no request issues
\* more than one insert.
C16_StoreAppendOnly ==
    [][ /\ \A r \in Reqs : calls'[r].insert <= 1
        /\ IF \E r \in Reqs : ret[r].insert = "none" /\ ret'[r].insert = "ok"
           THEN \E r \in Reqs :
                   /\ ret[r].insert = "none" /\ ret'[r].insert = "ok"
                   /\ calls[r].insert = 1
                   /\ IsWholeBatch(r)
                   /\ store' = store \o embeddings[r]
           ELSE store' = store ]_vars

\* C16 witness: both requests fetched the same article and both inserts
\* succeeded; the table holds the two copies.
C16_Witness ==
    /\ ret[1].insert = "ok" /\ ret[2].insert = "ok"
    /\ newsData[1] = newsData[2]
    /\ Len(newsData[1]) = 1
    /\ Len(store) = 2
    /\ store[1] = store[2]


\* C17: no provider call is retried.  A request makes at most one completion
\* call, one search, one bulk insert, one embedding call for the utterance
\* and one similarity call, and exactly one embedding call per fetched
\* article; a call that failed has been made once and is not made again.
C17_NoRetry ==
    \A r \in Reqs :
        /\ calls[r].completion <= 1
        /\ calls[r].search <= 1
        /\ calls[r].embedding = Len(newsData[r])
        /\ calls[r].embedding = Len(embCall[r])
        /\ calls[r].insert <= 1
        /\ calls[r].qembed <= 1
        /\ calls[r].rpc <= 1
        /\ ret[r].completion = "fail" => calls[r].completion = 1
        /\ ret[r].search = "fail" => calls[r].search = 1
        /\ ret[r].insert \in {"error", "reject"} => calls[r].insert = 1
        /\ ret[r].qembed = "fail" => calls[r].qembed = 1
        /\ ret[r].rpc \in {"error", "reject"} => calls[r].rpc = 1

\* C17 witness: of the two embedding calls of a request one failed, the
\* request is over and no further call was made.
C17_Witness ==
    \E r \in Reqs :
        /\ pc[r] = "done"
        /\ Len(newsData[r]) = 2
        /\ Failed(r)
        /\ calls[r] = [completion |-> 1, search |-> 1, embedding |-> 2,
                       insert |-> 0, qembed |-> 0, rpc |-> 0]


\* C18: a request whose body carries userRequest.utterance is answered
\* exactly once when every provider call eventually returns: a response with
\* status 200 or 500 is eventually sent, and no request is ever sent a
\* second response.
C18_AnsweredExactlyOnce ==
    /\ [](\A r \in Reqs : /\ sent[r] <= 1
                           /\ sent[r] = 1 => status[r] \in {200, 500})
    /\ \A r \in Reqs : (reqBody[r] = "utterance") ~> (sent[r] = 1)

\* C18 witness: a request with an utterance whose similarity search raised
\* has been sent its one response, by the catch block.
C18_Witness ==
    \E r \in Reqs :
        /\ reqBody[r] = "utterance"
        /\ raised[r] = "findSimilarDocuments"
        /\ sent[r] = 1
        /\ status[r] = 500


\* C19: a request whose body has no userRequest fails before the try block:
\* no stage is invoked (no provider call is made) and the handler sends
\* neither the 200 reply nor the 500 apology; a request whose body has a
\* userRequest without an utterance is not stopped there: the pipeline runs,
\* starting with the completion call, and the request ends answered.
C19_MissingFields ==
    \A r \in Reqs :
        /\ reqBody[r] = "noUserRequest" =>
              /\ calls[r] = NoCalls
              /\ ret[r] = NoRet
              /\ sent[r] = 0
              /\ status[r] = 0
              /\ resBody[r] = NoBody
              /\ raised[r] = "handler"
              /\ pc[r] = "rejected"
        /\ reqBody[r] = "noUtterance" =>
              /\ calls[r].completion = 1
              /\ raised[r] # "handler"
              /\ pc[r] # "rejected"
              /\ pc[r] = "done" => sent[r] = 1

\* C19 witness: a request without userRequest has been rejected.
C19_Witness ==
    \E r \in Reqs : reqBody[r] = "noUserRequest" /\ pc[r] = "rejected"

====
